---- MODULE Spec2Model ----
(***************************************************************************)
(* The National Weather Service integration                                *)
(* (homeassistant/components/nws/__init__.py) as a state machine.          *)
(*                                                                         *)
(* Every coroutine is cut at its await points: one action is the code that *)
(* runs on the event loop between two suspensions, which asyncio executes  *)
(* without interleaving.  The provider client (pynws), the platform        *)
(* forwarding of config entries and the recurring timer are the            *)
(* environment: their results are inputs drawn with \E.                    *)
(***************************************************************************)
EXTENDS Integers, Sequences, FiniteSets, TLC

(***************************************************************************)
(* Bounds of the model.                                                    *)
(***************************************************************************)
\* Firings of the interval timer within the window explored.
MaxTicks == 2
\* async_update invocations of one coordinator that can be in flight.
MaxInflight == 2

\* The config entries; each has one coordinator (NwsData) once set up.
Entries == {"e1", "e2"}
\* The entries whose timer fires within the window explored: the timer of the
\* other entry is registered all the same, its firings fall after the window.
TimedEntries == {"e1"}

None == "None"

\* entry.data of the entries: CONF_LATITUDE, CONF_LONGITUDE, and CONF_STATION
\* (an explicit station id, or None).  Two locations, one of each kind.
EntryData ==
    [e \in Entries |->
        IF e = "e1" THEN [latitude |-> 1, longitude |-> 12, station |-> "KXYZ"]
                    ELSE [latitude |-> 11, longitude |-> 2, station |-> None]]
\* What the client's nearest-station resolution can answer.
NearestStations == {"KABC"}

\* The three items, in the order async_update fetches them.
Items == 1..3
ItemName(i) == <<"observation", "forecast", "forecast_hourly">>[i]

\* Results of one fetch of the provider client: it returns, or it raises.
TransientErrors == {"ClientError", "TimeoutError"}
FetchOutcomes == {"ok", "ValueError"} \cup TransientErrors

Slots == 1..MaxInflight

VARIABLES
    setupDone,      \* async_setup has run
    domainPresent,  \* DOMAIN in hass.data
    registry,       \* keys of hass.data[DOMAIN]: entry ids holding a coordinator
    entryState,     \* where each entry's setup / unload coroutine stands
    station,        \* entry -> nws.station of its coordinator
    flags,          \* entry -> item -> update_<item>_success
    timer,          \* entry -> async_update is registered with the interval timer
    calls,          \* entry -> slot -> an invocation of async_update
    published,      \* signal key -> number of async_dispatcher_send on it
    logs,           \* entry -> item -> lines logged since its latest failure run began
    hist,           \* entry -> item -> history of that item's fetch attempts
    ticks,          \* firings of the interval timer so far
    config,         \* the location configuration handed to _INDIVIDUAL_SCHEMA
    verdict         \* what _INDIVIDUAL_SCHEMA made of it

vars == <<setupDone, domainPresent, registry, entryState, station, flags,
          timer, calls, published, logs, hist, ticks, config, verdict>>

\* const.DOMAIN
NWS_DOMAIN == "nws"

\* f"{latitude}_{longitude}"
base_unique_id(latitude, longitude) ==
    ToString(latitude) \o "_" \o ToString(longitude)

\* signal_unique_id with the separator between the coordinates lost.
signal_unique_id_unseparated(latitude, longitude) ==
    NWS_DOMAIN \o "_" \o ToString(latitude) \o ToString(longitude)

\* f"{DOMAIN}_{base_unique_id(latitude,longitude)}"
signal_unique_id(latitude, longitude) ==
    NWS_DOMAIN \o "_" \o base_unique_id(latitude, longitude)

\* The key a coordinator publishes on: signal_unique_id(self.latitude, self.longitude).
Key(e) == signal_unique_id(EntryData[e].latitude, EntryData[e].longitude)

\* __init__ starting the flags at False, as if nothing had succeeded yet.
InitFlagsFalse == [i \in Items |-> FALSE]

\* NwsData.__init__: the three success flags of a new coordinator.
InitFlags == [i \in Items |-> TRUE]

\* set_station always resolving the nearest station, the given id dropped.
SetStationNearest(given, nearest) == nearest

\* nws.set_station(station): the given id, or the nearest station when None.
SetStationResult(given, nearest) == IF given = None THEN nearest ELSE given

\* _async_update_item logging every failure and every success (level-triggered).
UpdateItemLevelTriggered(outcome, previous_success) ==
    IF outcome = "ok"
    THEN [raised |-> FALSE, success |-> TRUE, log |-> "recovery"]
    ELSE IF outcome \in TransientErrors
    THEN [raised |-> FALSE, success |-> FALSE, log |-> "warning"]
    ELSE [raised |-> TRUE, success |-> previous_success, log |-> "none"]

\* _async_update_item logging the transient error and raising it again.
UpdateItemReraises(outcome, previous_success) ==
    IF outcome = "ok"
    THEN [raised |-> FALSE, success |-> TRUE,
          log |-> IF ~previous_success THEN "recovery" ELSE "none"]
    ELSE IF outcome \in TransientErrors
    THEN [raised |-> TRUE, success |-> FALSE,
          log |-> IF previous_success THEN "warning" ELSE "none"]
    ELSE [raised |-> TRUE, success |-> previous_success, log |-> "none"]

\* _async_update_item with `except Exception`: every error is caught.
UpdateItemCatchesAll(outcome, previous_success) ==
    IF outcome = "ok"
    THEN [raised |-> FALSE, success |-> TRUE,
          log |-> IF ~previous_success THEN "recovery" ELSE "none"]
    ELSE [raised |-> FALSE, success |-> FALSE,
          log |-> IF previous_success THEN "warning" ELSE "none"]

\* _async_update_item with `except aiohttp.ClientError`: a timeout is not caught.
UpdateItemClientErrorOnly(outcome, previous_success) ==
    IF outcome = "ok"
    THEN [raised |-> FALSE, success |-> TRUE,
          log |-> IF ~previous_success THEN "recovery" ELSE "none"]
    ELSE IF outcome = "ClientError"
    THEN [raised |-> FALSE, success |-> FALSE,
          log |-> IF previous_success THEN "warning" ELSE "none"]
    ELSE [raised |-> TRUE, success |-> previous_success, log |-> "none"]

\* _async_update_item without the "Success updating" line.
UpdateItemSilentRecovery(outcome, previous_success) ==
    IF outcome = "ok"
    THEN [raised |-> FALSE, success |-> TRUE, log |-> "none"]
    ELSE IF outcome \in TransientErrors
    THEN [raised |-> FALSE, success |-> FALSE,
          log |-> IF previous_success THEN "warning" ELSE "none"]
    ELSE [raised |-> TRUE, success |-> previous_success, log |-> "none"]

\* _async_update_item writing the warning for an error it does not catch.
UpdateItemLogsUnrecognized(outcome, previous_success) ==
    IF outcome = "ok"
    THEN [raised |-> FALSE, success |-> TRUE,
          log |-> IF ~previous_success THEN "recovery" ELSE "none"]
    ELSE IF outcome \in TransientErrors
    THEN [raised |-> FALSE, success |-> FALSE,
          log |-> IF previous_success THEN "warning" ELSE "none"]
    ELSE [raised |-> TRUE, success |-> previous_success, log |-> "warning"]

(***************************************************************************)
(* _async_update_item, from the resumption of `await update_call()` to its *)
(* return: `outcome` is how the fetch ended.  raised = the exception is    *)
(* not caught and leaves the coroutine; otherwise success is the value     *)
(* returned and log the line written at warning level, if any.             *)
(***************************************************************************)
UpdateItem(outcome, previous_success) ==
    IF outcome = "ok"
    THEN [raised |-> FALSE, success |-> TRUE,
          log |-> IF ~previous_success THEN "recovery" ELSE "none"]
    ELSE IF outcome \in TransientErrors
    THEN [raised |-> FALSE, success |-> FALSE,
          log |-> IF previous_success THEN "warning" ELSE "none"]
    ELSE [raised |-> TRUE, success |-> previous_success, log |-> "none"]

\* Every result assigned to update_observation_success.
FlagsAfterAllToObservation(f, i, success) == [f EXCEPT ![1] = success]

\* self.update_<item>_success = <result of _async_update_item>
FlagsAfter(f, i, success) == [f EXCEPT ![i] = success]

\* The send at the end of async_update left out.
DispatchDropped(pub, key) == pub

\* async_dispatcher_send(self.hass, key) at the end of async_update.
Dispatch(pub, key) == [pub EXCEPT ![key] = @ + 1]

IdleCall == [status |-> "idle", item |-> 0, prev |-> TRUE, sent |-> 0,
             outcomes |-> <<>>, trigger |-> "none"]

\* async_update fetching the forecast first.
NewCallForecastFirst(f, trigger) ==
    [status |-> "fetch", item |-> 2, prev |-> f[2], sent |-> 0,
     outcomes |-> <<>>, trigger |-> trigger]

\* async_update up to its first suspension: the arguments of the first
\* _async_update_item are evaluated (the flag is read) and its fetch awaited.
NewCall(f, trigger) ==
    [status |-> "fetch", item |-> 1, prev |-> f[1], sent |-> 0,
     outcomes |-> <<>>, trigger |-> trigger]

InFlight(e) == {t \in Slots : calls[e][t].status = "fetch"}
FreeSlot(e) == CHOOSE t \in Slots \ InFlight(e) : \A u \in Slots \ InFlight(e) : t <= u

\* How a fetch ended: it returned, it raised one of the errors the except clause
\* of _async_update_item names, or it raised another one.
OutcomeClass(outcome) ==
    IF outcome = "ok" THEN "ok"
    ELSE IF outcome \in TransientErrors THEN "transient" ELSE "unrecognized"

\* The history of an item's attempts after one more attempt ended `outcome`:
\* attempt is the latest attempt, settled the latest that returned or failed
\* with a transient error, run the number of failures of the latest run of
\* consecutive transient failures (0 when the item never failed).
HistAfter(h, outcome) ==
    LET k == OutcomeClass(outcome)
    IN  [attempt |-> k,
         settled |-> IF k = "unrecognized" THEN h.settled ELSE k,
         run     |-> IF k # "transient" THEN h.run
                     ELSE IF h.settled = "transient" THEN h.run + 1 ELSE 1]

\* A run of failures of the item begins with this attempt.
Onset(h, outcome) == OutcomeClass(outcome) = "transient" /\ h.settled # "transient"

NoLines == [warning |-> 0, recovery |-> 0]

\* The lines an item has had logged since its latest run of failures began (since
\* construction while it never failed), after an attempt that ended `outcome`
\* and logged `log`.
LogAfter(l, h, outcome, log) ==
    LET w == IF Onset(h, outcome) THEN NoLines ELSE l
    IN  IF log = "none" THEN w ELSE [w EXCEPT ![log] = @ + 1]

\* The keys _INDIVIDUAL_SCHEMA names: CONF_API_KEY, CONF_LATITUDE,
\* CONF_LONGITUDE, CONF_STATION.
ConfKeys == {"api_key", "latitude", "longitude", "station"}

\* A key the schema does not name.
UnknownKey == "name"

\* A location configuration: the keys it has, and those of them whose value the
\* key's validator (cv.string, cv.latitude, cv.longitude) refuses.
Configs ==
    {c \in [keys : SUBSET (ConfKeys \cup {UnknownKey}), bad : SUBSET ConfKeys] :
        c.bad \subseteq c.keys}

\* No location is configured: nothing is handed to the schema.
NoConfig == [keys |-> {}, bad |-> {}]

\* vol.Required(CONF_API_KEY)
RequiredErrors(keys) ==
    IF "api_key" \in keys THEN {} ELSE {"required key not provided"}

\* Latitude and longitude as two independent vol.Optional keys.
InclusiveErrorsNone(keys) == {}

\* vol.Inclusive(CONF_LATITUDE, "coordinates", msg) and
\* vol.Inclusive(CONF_LONGITUDE, "coordinates", msg): the keys of the group
\* are all in the configuration or none of them is.
InclusiveErrors(keys) ==
    LET group == {"latitude", "longitude"}
    IN  IF group \cap keys \notin {{}, group}
        THEN {"Latitude and longitude must exist together"}
        ELSE {}

\* The schema has no `extra`: a key it does not name is an error.
ExtraErrors(keys) ==
    IF keys \subseteq ConfKeys THEN {} ELSE {"extra keys not allowed"}

\* The value of a key the schema names is run through the key's validator.
ValueErrors(c) ==
    IF c.bad \cap ConfKeys = {} THEN {} ELSE {"invalid value"}

\* _INDIVIDUAL_SCHEMA(config): the validated configuration is returned when no
\* rule of the schema is broken, vol.Invalid is raised otherwise.
IndividualSchema(c) ==
    LET errors == RequiredErrors(c.keys) \cup InclusiveErrors(c.keys)
                      \cup ExtraErrors(c.keys) \cup ValueErrors(c)
    IN  IF errors = {} THEN "accepted" ELSE "rejected"

\* The host before the integration is loaded.
InitHass ==
    /\ setupDone = FALSE
    /\ domainPresent = FALSE
    /\ registry = {}
    /\ entryState = [e \in Entries |-> "not_loaded"]
    /\ station = [e \in Entries |-> None]
    /\ flags = [e \in Entries |-> InitFlags]
    /\ timer = [e \in Entries |-> FALSE]
    /\ calls = [e \in Entries |-> [t \in Slots |-> IdleCall]]
    /\ published = [k \in {Key(e) : e \in Entries} |-> 0]
    /\ logs = [e \in Entries |-> [i \in Items |-> NoLines]]
    /\ hist = [e \in Entries |-> [i \in Items |->
                  [attempt |-> "none", settled |-> "none", run |-> 0]]]
    /\ ticks = 0

Init ==
    /\ InitHass
    /\ config = NoConfig
    /\ verdict = "none"

\* Any location configuration may be handed to the schema.
InitConfig ==
    /\ InitHass
    /\ config \in Configs
    /\ verdict = "none"

\* The configuration is validated against _INDIVIDUAL_SCHEMA.
ValidateConfig ==
    /\ verdict = "none"
    /\ verdict' = IndividualSchema(config)
    /\ UNCHANGED <<config, setupDone, domainPresent, registry, entryState, station,
                   flags, timer, calls, published, logs, hist, ticks>>

\* async_setup: hass.data.setdefault(DOMAIN, {}); the host runs it once, before
\* any entry of the integration is set up.
AsyncSetup ==
    /\ ~setupDone
    /\ setupDone' = TRUE
    /\ domainPresent' = TRUE
    /\ UNCHANGED <<registry, entryState, station, flags, timer,
                   calls, published, logs, hist, ticks, config, verdict>>

\* The call of async_update made by `trigger` on the coordinator of e, whose
\* flags are f, up to its first suspension.
StartCycle(e, trigger, f) ==
    /\ calls' = [calls EXCEPT ![e][FreeSlot(e)] = NewCall(f, trigger)]
    /\ ticks' = IF trigger = "timer" THEN ticks + 1 ELSE ticks

(***************************************************************************)
(* async_setup_entry up to its first suspension.  Storing the coordinator  *)
(* raises KeyError when hass.data has no DOMAIN.  With an explicit station *)
(* set_station does no I/O and returns at once, so the coroutine runs on   *)
(* into async_update and suspends in the observation fetch; with None it   *)
(* suspends in the client's nearest-station lookup.  The host sets up an   *)
(* entry that is not loaded, once.                                         *)
(***************************************************************************)
SetupEntryStart(e) ==
    /\ setupDone
    /\ entryState[e] = "not_loaded"
    /\ IF ~domainPresent
       THEN /\ entryState' = [entryState EXCEPT ![e] = "setup_failed"]
            /\ UNCHANGED <<registry, flags, station, calls, ticks>>
       ELSE /\ registry' = registry \cup {e}
            /\ flags' = [flags EXCEPT ![e] = InitFlags]
            /\ IF EntryData[e].station = None
               THEN /\ entryState' = [entryState EXCEPT ![e] = "setup_station"]
                    /\ UNCHANGED <<station, calls, ticks>>
               ELSE /\ station' = [station EXCEPT ![e] =
                                      SetStationResult(EntryData[e].station, None)]
                    /\ entryState' = [entryState EXCEPT ![e] = "setup_update"]
                    /\ StartCycle(e, "setup", InitFlags)
    /\ UNCHANGED <<config, verdict, setupDone, domainPresent, timer, published, logs, hist>>

\* async_setup_entry resumed from `await nws_data.async_set_station(None)`: the
\* lookup answered `result`, or raised, which ends the setup with the exception.
SetStationDone(e, result) ==
    /\ entryState[e] = "setup_station"
    /\ IF result = "error"
       THEN /\ entryState' = [entryState EXCEPT ![e] = "setup_failed"]
            /\ UNCHANGED <<station, calls, ticks>>
       ELSE /\ station' = [station EXCEPT ![e] =
                              SetStationResult(EntryData[e].station, result)]
            /\ entryState' = [entryState EXCEPT ![e] = "setup_update"]
            /\ StartCycle(e, "setup", flags[e])
    /\ UNCHANGED <<config, verdict, setupDone, domainPresent, registry, flags,
                   timer, published, logs, hist>>

\* A timer that calls async_update at every interval, whatever is running.
TimerMayFireAlways(e) == TRUE

\* The recurring timer does not call async_update again while a call of the
\* same coordinator is still running.
TimerMayFire(e) == InFlight(e) = {}

\* The timer registered as soon as the coordinator is stored, before the
\* station is set and the initial update has run.
TimerTickRegisteredEarly(e) ==
    /\ e \in registry
    /\ TimerMayFire(e)
    /\ e \in TimedEntries
    /\ ticks < MaxTicks
    /\ StartCycle(e, "timer", flags[e])
    /\ UNCHANGED <<config, verdict, setupDone, domainPresent, registry, entryState, station, flags, timer, published, logs, hist>>

\* The interval timer fires: the registered nws_data.async_update is called.
TimerTick(e) ==
    /\ timer[e]
    /\ TimerMayFire(e)
    /\ e \in TimedEntries
    /\ ticks < MaxTicks
    /\ StartCycle(e, "timer", flags[e])
    /\ UNCHANGED <<config, verdict, setupDone, domainPresent, registry, entryState, station, flags, timer, published, logs, hist>>

(***************************************************************************)
(* async_update resumed from the fetch of its current item, which ended    *)
(* `outcome`, and run to its next suspension or its end.  An exception     *)
(* that _async_update_item does not catch leaves async_update before the   *)
(* flag is assigned.  The call made by async_setup_entry continues in      *)
(* async_setup_entry: the timer is registered and the platforms are        *)
(* forwarded when it returns, the setup ends with the exception when it    *)
(* raises.                                                                 *)
(***************************************************************************)
FetchDone(e, t, outcome) ==
    LET c == calls[e][t]
        i == c.item
        r == UpdateItem(outcome, c.prev)
        f == FlagsAfter(flags[e], i, r.success)
        seen == Append(c.outcomes, OutcomeClass(outcome))
    IN  /\ c.status = "fetch"
        /\ hist' = [hist EXCEPT ![e][i] = HistAfter(@, outcome)]
        /\ logs' = [logs EXCEPT ![e][i] = LogAfter(@, hist[e][i], outcome, r.log)]
        /\ IF r.raised
           THEN /\ calls' = [calls EXCEPT ![e][t] =
                                [c EXCEPT !.status = "raised", !.outcomes = seen]]
                /\ entryState' = IF c.trigger = "setup"
                                 THEN [entryState EXCEPT ![e] = "setup_failed"]
                                 ELSE entryState
                /\ UNCHANGED <<flags, published, timer>>
           ELSE /\ flags' = [flags EXCEPT ![e] = f]
                /\ IF i < 3
                   THEN /\ calls' = [calls EXCEPT ![e][t] =
                                        [c EXCEPT !.item = i + 1, !.prev = f[i + 1],
                                                  !.outcomes = seen]]
                        /\ UNCHANGED <<published, timer, entryState>>
                   ELSE /\ published' = Dispatch(published, Key(e))
                        /\ calls' = [calls EXCEPT ![e][t] =
                                        [c EXCEPT !.status = "returned",
                                                  !.outcomes = seen,
                                                  !.sent = published'[Key(e)]
                                                           - published[Key(e)]]]
                        /\ timer' = IF c.trigger = "setup"
                                    THEN [timer EXCEPT ![e] = TRUE] ELSE timer
                        /\ entryState' = IF c.trigger = "setup"
                                         THEN [entryState EXCEPT ![e] = "loaded"]
                                         ELSE entryState
        /\ UNCHANGED <<config, verdict, setupDone, domainPresent, registry,
                       station, ticks>>

\* hass.data[DOMAIN].pop(entry.entry_id)
PopEntry(reg, e) == reg \ {e}

\* The pop of DOMAIN left out: hass.data keeps the empty registry.
DomainKept(reg) == TRUE

\* if len(hass.data[DOMAIN]) == 0: hass.data.pop(DOMAIN) -- DOMAIN is in hass.data
\* afterwards iff the registry still holds a coordinator.
DomainAfterPop(reg) == reg # {}

\* async_unload_entry up to `await asyncio.gather(...)`; the host unloads a
\* loaded entry.
UnloadStart(e) ==
    /\ entryState[e] = "loaded"
    /\ entryState' = [entryState EXCEPT ![e] = "unloading"]
    /\ UNCHANGED <<config, verdict, setupDone, domainPresent, registry, station,
                   flags, timer, calls, published, logs, hist, ticks>>

\* async_unload_entry resumed with the platforms' answers; unload_ok = all of them.
\* A refused unload leaves the entry as it was, loaded.
UnloadDone(e, unload_ok) ==
    /\ entryState[e] = "unloading"
    /\ IF ~unload_ok
       THEN /\ entryState' = [entryState EXCEPT ![e] = "loaded"]
            /\ UNCHANGED <<registry, domainPresent>>
       ELSE IF domainPresent /\ e \in registry
       THEN /\ registry' = PopEntry(registry, e)
            /\ domainPresent' = DomainAfterPop(registry')
            /\ entryState' = [entryState EXCEPT ![e] = "unloaded"]
       ELSE /\ entryState' = [entryState EXCEPT ![e] = "unload_raised"]
            /\ UNCHANGED <<registry, domainPresent>>
    /\ UNCHANGED <<config, verdict, setupDone, station, flags, timer, calls,
                   published, logs, hist, ticks>>

Next ==
    \/ AsyncSetup
    \/ \E e \in Entries : SetupEntryStart(e)
    \/ \E e \in Entries : \E result \in NearestStations \cup {"error"} :
           SetStationDone(e, result)
    \/ \E e \in Entries : TimerTick(e)
    \/ \E e \in Entries : \E t \in Slots : \E outcome \in FetchOutcomes :
           FetchDone(e, t, outcome)
    \/ \E e \in Entries : UnloadStart(e)
    \/ \E e \in Entries : \E unload_ok \in BOOLEAN : UnloadDone(e, unload_ok)

Spec == Init /\ [][Next]_vars

(***************************************************************************)
(* async_update is called on a coordinator while an earlier call of it is  *)
(* suspended in a fetch.  The method has no guard: the new call reads the  *)
(* observation flag as it is now and suspends in its own observation       *)
(* fetch, and the calls then resume in any order.                          *)
(***************************************************************************)
UpdateWhileRunning(e) ==
    /\ timer[e]
    /\ InFlight(e) # {}
    /\ Slots \ InFlight(e) # {}
    /\ e \in TimedEntries
    /\ ticks < MaxTicks
    /\ StartCycle(e, "timer", flags[e])
    /\ UNCHANGED <<config, verdict, setupDone, domainPresent, registry, entryState,
                   station, flags, timer, published, logs, hist>>

\* The steps of the entries whose timer fires, with overlapping calls.
NextOverlap ==
    \/ AsyncSetup
    \/ \E e \in TimedEntries : SetupEntryStart(e)
    \/ \E e \in TimedEntries : TimerTick(e)
    \/ \E e \in TimedEntries : UpdateWhileRunning(e)
    \/ \E e \in TimedEntries : \E t \in Slots : \E outcome \in FetchOutcomes :
           FetchDone(e, t, outcome)
    \/ \E e \in TimedEntries : UnloadStart(e)
    \/ \E e \in TimedEntries : \E unload_ok \in BOOLEAN : UnloadDone(e, unload_ok)

\* One coordinator with calls of its async_update overlapping.
SpecOverlap == Init /\ [][NextOverlap]_vars

NextConfig == ValidateConfig

\* Configuration validation on its own, over every configuration of Configs.
SpecConfig == InitConfig /\ [][NextConfig]_vars

(***************************************************************************)
(* Properties.                                                             *)
(***************************************************************************)
\* The call in slot t of e's coordinator ends in this step, `how`.
Finishes(e, t, how) == calls[e][t].status = "fetch" /\ calls'[e][t].status = how

\* The outcomes of the fetches a call has made so far.
Seen(c) == {c.outcomes[j] : j \in 1..Len(c.outcomes)}

\* C1, as stated: every call of async_update publishes the notification exactly
\* once, however its fetches end: each step that ends a call, by return or by
\* an exception, adds exactly one publication on the coordinator's key.
C1_EveryCallPublishesOnce ==
    [][\A e \in Entries : \A t \in Slots :
          (Finishes(e, t, "returned") \/ Finishes(e, t, "raised"))
              => published'[Key(e)] = published[Key(e)] + 1]_vars

\* C1, amended: a call of async_update that returns publishes exactly one
\* notification, as its last act, whatever mix of successes and transient
\* failures its three fetches had; a call that a fetch ends with an error
\* outside the transient category publishes none; nothing else publishes.
C1_ReturningCallPublishesOnce ==
    [][\A e \in Entries :
          published'[Key(e)] - published[Key(e)]
              = Cardinality({t \in Slots : Finishes(e, t, "returned")})]_vars

\* A call whose three fetches all failed has returned and published once.
C1_Witness ==
    \E e \in Entries : \E t \in Slots :
        /\ calls[e][t].status = "returned"
        /\ calls[e][t].outcomes = <<"transient", "transient", "transient">>
        /\ calls[e][t].sent = 1
        /\ published[Key(e)] = 1

\* C2: for each item, while update cycles do not overlap, a run of consecutive
\* transient failures has exactly one warning logged (at its first failure) and,
\* once a success ends it, exactly one recovery line (at that success), however
\* long the run; an item that never failed has had nothing logged.
C2_OneWarningOneRecoveryPerRun ==
    \A e \in Entries : \A i \in Items :
        LET h == hist[e][i]
        IN  logs[e][i] =
                IF h.run = 0 THEN NoLines
                ELSE IF h.settled = "transient"
                THEN [warning |-> 1, recovery |-> 0]
                ELSE [warning |-> 1, recovery |-> 1]

\* A run of two or more failures of an item has been ended by a success.
C2_Witness ==
    \E e \in Entries : \E i \in Items :
        /\ hist[e][i].run >= 2
        /\ hist[e][i].settled = "ok"
        /\ logs[e][i] = [warning |-> 1, recovery |-> 1]

\* C3, as stated: when a fetch of a call fails with a transient error, every
\* later item of that call is attempted: a call that has ended after such a
\* failure has attempted all three items.
C3_LaterItemsAlwaysAttempted ==
    \A e \in Entries : \A t \in Slots :
        LET c == calls[e][t]
        IN  (c.status \in {"returned", "raised"} /\ "transient" \in Seen(c))
                => Len(c.outcomes) = 3

\* C3, amended: when a fetch fails with a transient error the next item of the
\* same call is attempted at once, and every later item is attempted unless a
\* fetch before it raises an error outside the transient category.
C3_TransientFailureDoesNotStopCycle ==
    \A e \in Entries : \A t \in Slots :
        LET c == calls[e][t]
        IN  /\ \A j \in 1..Len(c.outcomes) :
                   (c.outcomes[j] = "transient" /\ j < 3)
                       => \/ Len(c.outcomes) > j
                          \/ c.status = "fetch" /\ c.item = j + 1
            /\ (c.status \in {"returned", "raised"} /\ "unrecognized" \notin Seen(c))
                   => Len(c.outcomes) = 3

\* The observation fetch failed and the two forecasts were fetched after it.
C3_Witness ==
    \E e \in Entries : \E t \in Slots :
        /\ calls[e][t].status = "returned"
        /\ calls[e][t].outcomes = <<"transient", "ok", "ok">>

\* C4: a fetch that raises an error outside the transient category is the last
\* fetch of its call (no later item is attempted) and the call ends with the
\* exception, which reaches its caller: the setup of the entry fails when the
\* caller is async_setup_entry.
C4_UnrecognizedErrorAbortsAndPropagates ==
    \A e \in Entries : \A t \in Slots :
        LET c == calls[e][t]
        IN  \A j \in 1..Len(c.outcomes) :
                c.outcomes[j] = "unrecognized"
                    => /\ j = Len(c.outcomes)
                       /\ c.item = j
                       /\ c.status = "raised"
                       /\ c.trigger = "setup" => entryState[e] = "setup_failed"

\* The forecast fetch of a call raised an unrecognized error after the
\* observation was fetched; the hourly forecast was not attempted.
C4_Witness ==
    \E e \in Entries : \E t \in Slots :
        /\ calls[e][t].status = "raised"
        /\ calls[e][t].outcomes = <<"ok", "unrecognized">>

\* C5, as stated: each flag equals the outcome of the most recent fetch attempt
\* of its item: true when that attempt succeeded, false when it failed.
C5_FlagIsLatestAttempt ==
    \A e \in Entries : \A i \in Items :
        hist[e][i].attempt # "none" => flags[e][i] = (hist[e][i].attempt = "ok")

\* C5, amended: each flag equals the outcome of the most recent attempt of its
\* item that succeeded or failed with a transient error (true before any such
\* attempt); an attempt that raises another error leaves the flag as it was.
\* The flag is a function of its own item's history alone.
C5_FlagIsLatestSettledAttempt ==
    \A e \in Entries : \A i \in Items :
        flags[e][i] = (hist[e][i].settled # "transient")

\* The three flags of one coordinator differ, each following its own item.
C5_Witness ==
    \E e \in Entries :
        /\ flags[e] = <<TRUE, FALSE, TRUE>>
        /\ hist[e][1].settled = "ok"
        /\ hist[e][2].settled = "transient"
        /\ hist[e][3].settled = "ok"

\* C6: a recovery line for an item is logged only by a successful fetch that
\* found the item's flag false, set so by an earlier transient failure of that
\* same item; the first successful fetch of an item of a freshly constructed
\* coordinator logs no recovery line.
C6_RecoveryOnlyAfterFailure ==
    [][\A e \in Entries : \A i \in Items :
          /\ logs'[e][i].recovery > logs[e][i].recovery
                 => /\ hist'[e][i].attempt = "ok"
                    /\ hist[e][i].settled = "transient"
                    /\ ~flags[e][i]
          /\ (hist[e][i].settled = "none" /\ hist'[e][i].settled = "ok")
                 => logs'[e][i] = NoLines]_vars

\* Every item of a coordinator has had a first success, none ever failed, and
\* nothing was logged.
C6_Witness ==
    \E e \in Entries :
        \A i \in Items :
            /\ hist[e][i].settled = "ok"
            /\ hist[e][i].run = 0
            /\ logs[e][i] = NoLines

\* C7: a transient error of a fetch never leaves async_update: a call ends with
\* an exception only when its last fetch raised an error outside the transient
\* category, and a call whose failing fetches all failed with transient errors
\* returns, after three fetches, with exactly the failed items' flags false.
C7_TransientErrorsAbsorbed ==
    \A e \in Entries : \A t \in Slots :
        LET c == calls[e][t]
        IN  /\ c.status = "raised"
                => /\ c.outcomes # <<>>
                   /\ c.outcomes[Len(c.outcomes)] = "unrecognized"
            /\ (c.status # "idle" /\ "unrecognized" \notin Seen(c))
                => c.status \in {"fetch", "returned"}
            /\ c.status = "returned"
                => /\ Len(c.outcomes) = 3
                   /\ \A j \in Items : flags[e][j] = (c.outcomes[j] = "ok")

\* A call in which two fetches failed with transient errors has returned, and
\* the flags of those two items are false.
C7_Witness ==
    \E e \in Entries : \E t \in Slots :
        /\ calls[e][t].status = "returned"
        /\ calls[e][t].outcomes = <<"ok", "transient", "transient">>
        /\ flags[e] = <<TRUE, FALSE, FALSE>>
        /\ calls[e][t].trigger = "timer"

\* C8: the two coordinators publish on distinct keys, and a step of an update
\* cycle of one of them leaves the other's three flags unchanged, logs nothing
\* for the other's items and publishes nothing on the other's key.
C8_CoordinatorsIndependent ==
    [][\A e \in Entries : \A o \in Entries \ {e} :
          calls'[e] # calls[e]
              => /\ Key(e) # Key(o)
                 /\ flags'[o] = flags[o]
                 /\ logs'[o] = logs[o]
                 /\ published'[Key(o)] = published[Key(o)]]_vars

\* Both coordinators have run a cycle with failing fetches, and their flags,
\* logs and publications differ.
C8_Witness ==
    /\ flags["e1"] = <<FALSE, TRUE, TRUE>>
    /\ flags["e2"] = <<TRUE, TRUE, FALSE>>
    /\ logs["e1"][1].warning = 1 /\ logs["e2"][1].warning = 0
    /\ logs["e2"][3].warning = 1 /\ logs["e1"][3].warning = 0
    /\ published[Key("e1")] = 2
    /\ published[Key("e2")] = 1

\* C9: once async_set_station has bound an explicit station id, the station of
\* the coordinator is that id in every later state, through any number of
\* async_update calls with any outcomes.
C9_ExplicitStationKept ==
    \A e \in Entries :
        (EntryData[e].station # None /\ \E t \in Slots : calls[e][t].status # "idle")
            => station[e] = EntryData[e].station

\* The coordinator with the explicit station has run three update calls, the
\* last one with failures, and is still bound to it.
C9_Witness ==
    \E e \in Entries : \E t \in Slots :
        /\ EntryData[e].station = "KXYZ"
        /\ station[e] = "KXYZ"
        /\ ticks = MaxTicks
        /\ calls[e][t].status = "returned"
        /\ calls[e][t].trigger = "timer"
        /\ "transient" \in Seen(calls[e][t])

\* C10: after async_unload_entry has completed for an entry, the timer starts no
\* new update cycle of that entry's coordinator.
C10_NoCycleAfterUnload ==
    [][\A e \in Entries :
          entryState[e] = "unloaded"
              => ~ \E t \in Slots : /\ calls'[e][t].status = "fetch"
                                    /\ calls[e][t].status # "fetch"]_vars

\* A new invocation of async_update of e's coordinator begins in slot t in this step.
Starts(e, t) == calls'[e][t].status = "fetch" /\ calls[e][t].status # "fetch"

\* The entry's async_setup_entry has returned True.
SetUp(e) == entryState[e] \in {"loaded", "unloading", "unloaded", "unload_raised"}

\* C11: entry setup runs in a fixed order.  An update cycle starts only with
\* the station set; the initial cycle is the coordinator's first call and is
\* started once, by the setup, with no timer registered; the timer is
\* registered, and async_setup_entry returns, in the step in which that initial
\* cycle returns; a timer-driven cycle starts only with the timer registered,
\* hence after the initial cycle has finished and the setup has returned.
C11_SetupOrder ==
    [][\A e \in Entries :
          /\ \A t \in Slots :
                 Starts(e, t)
                     => /\ station'[e] # None
                        /\ IF calls'[e][t].trigger = "setup"
                           THEN /\ entryState[e] \in {"not_loaded", "setup_station"}
                                /\ \A u \in Slots : calls[e][u].status = "idle"
                                /\ ~timer[e] /\ ~timer'[e]
                           ELSE /\ timer[e]
                                /\ SetUp(e)
                                /\ \A u \in Slots :
                                       calls[e][u].trigger = "setup"
                                           => calls[e][u].status = "returned"
          /\ (timer'[e] /\ ~timer[e]) \/ (SetUp(e)' /\ ~SetUp(e))
                 => /\ entryState[e] = "setup_update"
                    /\ entryState'[e] = "loaded"
                    /\ timer'[e] /\ ~timer[e]
                    /\ \E t \in Slots : /\ calls[e][t].trigger = "setup"
                                        /\ Finishes(e, t, "returned")]_vars

\* The entry without a configured station has resolved one, run its initial
\* cycle and registered its timer; the other entry's timer has already fired.
C11_Witness ==
    /\ entryState["e2"] = "loaded"
    /\ station["e2"] = "KABC"
    /\ timer["e2"]
    /\ \E t \in Slots : calls["e2"][t].trigger = "setup"
                            /\ calls["e2"][t].status = "returned"
    /\ \E t \in Slots : calls["e1"][t].trigger = "timer"
    /\ timer["e1"]

\* C12: when async_unload_entry ends, either every platform unload succeeded,
\* the entry's coordinator has been removed from the registry, DOMAIN has been
\* removed from hass.data exactly when no coordinator is left, and the call
\* returns true; or some platform unload failed, the registry and hass.data are
\* unchanged and the call returns false.  The two pops never raise.
C12_UnloadEntry ==
    [][\A e \in Entries :
          (entryState[e] = "unloading" /\ entryState'[e] # "unloading")
              => \/ /\ entryState'[e] = "unloaded"
                    /\ e \in registry /\ domainPresent
                    /\ registry' = registry \ {e}
                    /\ domainPresent' = (registry' # {})
                 \/ /\ entryState'[e] = "loaded"
                    /\ registry' = registry
                    /\ domainPresent' = domainPresent]_vars

\* Both entries have been unloaded: the registry is empty and DOMAIN is gone.
C12_Witness ==
    /\ entryState["e1"] = "unloaded"
    /\ entryState["e2"] = "unloaded"
    /\ registry = {}
    /\ ~domainPresent

\* C14: within one call of async_update the fetches run one at a time in the
\* order observation, forecast, hourly forecast.  A call starts in the fetch of
\* item 1; it is suspended in the fetch of item i exactly when items 1..i-1 have
\* been attempted; the step that ends the fetch of item i writes flag i from its
\* outcome before the fetch of item i+1 begins; and the notification is
\* published only by the step that ends the fetch of item 3, with all three
\* items attempted and flag 3 written.
C14_SequentialFixedOrder ==
    [][\A e \in Entries :
          /\ \A t \in Slots :
                 LET c == calls[e][t]
                     d == calls'[e][t]
                 IN  /\ Starts(e, t) => d.item = 1 /\ d.outcomes = <<>>
                     /\ d.status = "fetch" => Len(d.outcomes) = d.item - 1
                     /\ (c.status = "fetch" /\ d # c)
                            => /\ Len(d.outcomes) = c.item
                               /\ IF d.status = "fetch"
                                  THEN /\ c.item < 3
                                       /\ d.item = c.item + 1
                                       /\ flags'[e][c.item] = (d.outcomes[c.item] = "ok")
                                       /\ d.prev = flags'[e][d.item]
                                  ELSE d.item = c.item
          /\ published'[Key(e)] # published[Key(e)]
                 => \E t \in Slots :
                        /\ Finishes(e, t, "returned")
                        /\ calls[e][t].item = 3
                        /\ Len(calls'[e][t].outcomes) = 3
                        /\ flags'[e][3] = (calls'[e][t].outcomes[3] = "ok")
                        /\ \A j \in 1..3 : calls'[e][t].outcomes[j] # "unrecognized"]_vars

\* A call is suspended in the hourly-forecast fetch after a failed observation
\* fetch and a successful forecast fetch; both flags are written, nothing is
\* published yet by this call.
C14_Witness ==
    \E e \in Entries : \E t \in Slots :
        /\ calls[e][t].status = "fetch"
        /\ calls[e][t].item = 3
        /\ calls[e][t].outcomes = <<"transient", "ok">>
        /\ flags[e] = <<FALSE, TRUE, TRUE>>
        /\ calls[e][t].trigger = "setup"
        /\ published[Key(e)] = 0

\* C15: at most one call of async_update of a coordinator is in flight at any
\* time: the timer starts no call while an earlier one is suspended in a fetch.
C15_AtMostOneCycleInFlight ==
    \A e \in Entries : Cardinality(InFlight(e)) <= 1

\* The timer is registered, both ticks have been taken, and the call the second
\* tick started is suspended in its forecast fetch: the interval may elapse
\* again here.
C15_Witness ==
    /\ timer["e1"]
    /\ ticks = MaxTicks
    /\ \E t \in Slots : /\ calls["e1"][t].status = "fetch"
                        /\ calls["e1"][t].trigger = "timer"
                        /\ calls["e1"][t].item = 2

\* C16: the step in which a fetch raises an error outside the transient
\* category ends the call and changes no flag, logs no line and publishes
\* nothing; the flag of the raising item still has the value read when its
\* fetch began, the flags of earlier items have the values this call wrote from
\* their outcomes, and no step of the call other than the end of the fetch of
\* item j writes flag j, so the flags of later items are those from before the
\* call.
C16_UnrecognizedErrorFrame ==
    [][\A e \in Entries :
          /\ \A t \in Slots :
                 LET c == calls[e][t]
                     d == calls'[e][t]
                 IN  /\ Finishes(e, t, "raised")
                            => /\ d.outcomes[c.item] = "unrecognized"
                               /\ flags' = flags
                               /\ logs' = logs
                               /\ published' = published
                               /\ d.sent = 0
                               /\ flags'[e][c.item] = c.prev
                               /\ \A j \in 1..(c.item - 1) :
                                      flags'[e][j] = (c.outcomes[j] = "ok")
                     /\ (c.status = "fetch" /\ d # c /\ d.outcomes[c.item] = "unrecognized")
                            => d.status = "raised"
          /\ \A j \in Items :
                 flags'[e][j] # flags[e][j]
                     => \E t \in Slots : /\ calls[e][t].status = "fetch"
                                         /\ calls[e][t].item = j
                                         /\ calls'[e][t].status # "raised"]_vars

\* A timer-driven call had its observation fetch fail, which was logged, and its
\* forecast fetch raise an unrecognized error.
C16_Witness ==
    \E e \in Entries : \E t \in Slots :
        /\ calls[e][t].status = "raised"
        /\ calls[e][t].trigger = "timer"
        /\ calls[e][t].outcomes = <<"transient", "unrecognized">>
        /\ flags[e] = <<FALSE, TRUE, TRUE>>
        /\ logs[e][1].warning = 1
        /\ logs[e][2] = NoLines

\* C18, as stated: once async_setup has run, every async_setup_entry stores its
\* coordinator in the registry.
C18_SetupEntryAlwaysStores ==
    [][\A e \in Entries :
          (setupDone /\ entryState[e] = "not_loaded" /\ entryState'[e] # "not_loaded")
              => e \in registry']_vars

\* C19, as stated: no coordinator remains in the registry, and no timer is
\* registered, for an entry whose setup ended with an exception.
C19_NoCoordinatorAfterFailedSetup ==
    \A e \in Entries :
        entryState[e] = "setup_failed" => e \notin registry /\ ~timer[e]

\* C13: _INDIVIDUAL_SCHEMA accepts a configuration only if it has the API key
\* and has latitude and longitude both or neither; it accepts exactly the
\* configurations that, besides, have no key the schema does not name and no
\* value a validator refuses.  A configuration with one coordinate and not the
\* other is rejected.
C13_CoordinatesTogether ==
    LET group == {"latitude", "longitude"} \cap config.keys
    IN  /\ verdict = "accepted"
               => "api_key" \in config.keys /\ group \in {{}, {"latitude", "longitude"}}
        /\ verdict = "accepted"
               <=> /\ verdict # "none"
                   /\ "api_key" \in config.keys
                   /\ group \in {{}, {"latitude", "longitude"}}
                   /\ config.keys \subseteq ConfKeys
                   /\ config.bad = {}
        /\ (verdict # "none" /\ Cardinality(group) = 1) => verdict = "rejected"

\* The configuration {api_key: "k", latitude: 40.0}, longitude omitted, has
\* been rejected.
C13_Witness ==
    /\ config = [keys |-> {"api_key", "latitude"}, bad |-> {}]
    /\ verdict = "rejected"

\* The lines of item i of e counted from the start of the failure run that is
\* current after this step: the count starts again when the step begins a run.
LinesBefore(e, i) ==
    IF hist[e][i].settled # "transient" /\ hist'[e][i].settled = "transient"
    THEN NoLines ELSE logs[e][i]

\* This step writes the warning / the recovery line of item i of e.
Warns(e, i) == logs'[e][i].warning = LinesBefore(e, i).warning + 1
Recovers(e, i) == logs'[e][i].recovery = LinesBefore(e, i).recovery + 1

\* C17, as stated: also when calls of async_update of one coordinator overlap,
\* a warning is logged for an item only in a step that changes its flag from
\* true to false and a recovery line only in a step that changes it from false
\* to true, so each change of the flag has at most one line.
C17_OneLinePerFlagChange ==
    [][\A e \in Entries : \A i \in Items :
          /\ Warns(e, i) => flags[e][i] /\ ~flags'[e][i]
          /\ Recovers(e, i) => ~flags[e][i] /\ flags'[e][i]]_vars

\* C17, amended: a fetch that ends logs the warning exactly when it failed with
\* a transient error and the flag read when the call began that fetch was true,
\* and the recovery line exactly when it succeeded and that flag was false.
\* Where no other call has written the flag since it was read the line goes
\* with a change of the flag; otherwise the same change may be logged again.
C17_LineFollowsFlagReadAtFetchStart ==
    [][\A e \in Entries : \A t \in Slots :
          LET c == calls[e][t]
              d == calls'[e][t]
              i == c.item
          IN  (c.status = "fetch" /\ d # c)
                  => /\ Warns(e, i) <=> (d.outcomes[i] = "transient" /\ c.prev)
                     /\ Recovers(e, i) <=> (d.outcomes[i] = "ok" /\ ~c.prev)
                     /\ \A j \in Items \ {i} : ~Warns(e, j) /\ ~Recovers(e, j)
                     /\ c.prev = flags[e][i]
                            => /\ Warns(e, i) => flags[e][i] /\ ~flags'[e][i]
                               /\ Recovers(e, i) => ~flags[e][i] /\ flags'[e][i]]_vars

\* Two overlapping calls both read the observation flag as true and both had
\* their observation fetch fail: the same outage has two warnings.
C17_Witness ==
    /\ \A t \in Slots : /\ calls["e1"][t].trigger = "timer"
                        /\ Len(calls["e1"][t].outcomes) >= 1
                        /\ calls["e1"][t].outcomes[1] = "transient"
    /\ hist["e1"][1].run = 2
    /\ logs["e1"][1].warning = 2
    /\ ~flags["e1"][1]

====
